---- MODULE Spec2Model ----
(***************************************************************************)
(* Byte-pair-encoding tokenizer of week15/bpe.py: get_stats, merge, the    *)
(* training loop of encode, and decode.  Python dicts are modelled as      *)
(* sequences of records in insertion order (the order max() and            *)
(* dict.items() iterate in); Python str values are sequences of code       *)
(* points; bytes and id lists are sequences of integers.  Sequences are    *)
(* 1-based here, so a Python index k is position k + 1.                    *)
(***************************************************************************)
EXTENDS Integers, Sequences, FiniteSets

VARIABLES
    pc,              \* position: start, loop, trained, expand, decoded, merge_call, merge_ret
    text,            \* encode's argument text (code points)
    vocab_size,      \* encode's argument vocab_size
    ids,             \* encode's ids
    merges,          \* encode's merges dict, in insertion order
    vocab,           \* encode's vocab dict (idx -> bytes)
    i,               \* encode's loop counter
    encoded_tokens,  \* decode's argument
    d_ids,           \* decode's working list ids
    d_i,             \* decode's cursor i
    d_raised,        \* decode: an exception was raised inside the try block
    d_outcome,       \* decode: "pending", "returned" (a str) or "raised" (propagated)
    d_text,          \* decode's return value text (code points)
    m_ids,           \* merge's argument ids
    m_pair,          \* merge's argument pair
    m_idx,           \* merge's argument idx
    newids           \* merge's return value

vars == <<pc, text, vocab_size, ids, merges, vocab, i, encoded_tokens, d_ids,
          d_i, d_raised, d_outcome, d_text, m_ids, m_pair, m_idx, newids>>

trainVars == <<text, vocab_size, ids, merges, vocab, i>>
decodeVars == <<encoded_tokens, d_ids, d_i, d_raised, d_outcome, d_text>>
mergeVars == <<m_ids, m_pair, m_idx, newids>>

----------------------------------------------------------------------------
(* Bounds of the model and constants of the program *)

MaxLen == 3            \* longest enumerated text, in characters
MaxMerges == 2         \* enumerated targets are 256 + 0 .. 256 + MaxMerges
MaxTokens == 2         \* longest enumerated foreign token list given to decode
MaxMergeLen == 4       \* longest list given to merge on its own

NumBytes == 256        \* range(256), 256 + i, vocab_size - 256
DefaultVocabSize == 300
ReplacementChar == 65533

Alphabet == {97, 233, 20013}

hello == <<104, 101, 108, 108, 111>>
aaaa == <<97, 97, 97, 97>>
aaabdaaabac == <<97, 97, 97, 98, 100, 97, 97, 97, 98, 97, 99>>
Fixtures == {hello, aaaa, aaabdaaabac, <<128512>>}

SeqsUpTo(S, n) == UNION {[1..k -> S] : k \in 0..n}

Texts == SeqsUpTo(Alphabet, MaxLen) \cup Fixtures

VocabSizes == {100, DefaultVocabSize}
                 \cup {NumBytes + k : k \in 0..MaxMerges}

----------------------------------------------------------------------------
(* UTF-8 *)

Utf8EncodeChar(cp) ==
    IF cp < 128 THEN <<cp>>
    ELSE IF cp < 2048 THEN <<192 + (cp \div 64), 128 + (cp % 64)>>
    ELSE IF cp < 65536
        THEN <<224 + (cp \div 4096), 128 + ((cp \div 64) % 64), 128 + (cp % 64)>>
    ELSE <<240 + (cp \div 262144), 128 + ((cp \div 4096) % 64),
           128 + ((cp \div 64) % 64), 128 + (cp % 64)>>

RECURSIVE Utf8Encode(_)
Utf8Encode(s) ==
    IF s = <<>> THEN <<>> ELSE Utf8EncodeChar(Head(s)) \o Utf8Encode(Tail(s))

IsCont(b) == b >= 128 /\ b <= 191

\* the range the second byte of a multi-byte sequence led by b must be in
SecondOk(b, c) ==
    IF b = 224 THEN c >= 160 /\ c <= 191
    ELSE IF b = 237 THEN c >= 128 /\ c <= 159
    ELSE IF b = 240 THEN c >= 144 /\ c <= 191
    ELSE IF b = 244 THEN c >= 128 /\ c <= 143
    ELSE IsCont(c)

\* bytes.decode("utf-8", errors="replace") from position p
RECURSIVE Utf8DecodeFrom(_, _)
Utf8DecodeFrom(s, p) ==
    IF p > Len(s) THEN <<>>
    ELSE LET b == s[p]
             n == Len(s)
             bad(k) == <<ReplacementChar>> \o Utf8DecodeFrom(s, p + k)
             cut == <<ReplacementChar>>
         IN
         IF b < 128 THEN <<b>> \o Utf8DecodeFrom(s, p + 1)
         ELSE IF b >= 194 /\ b <= 223 THEN
             IF p + 1 > n THEN cut
             ELSE IF ~IsCont(s[p + 1]) THEN bad(1)
             ELSE <<(b - 192) * 64 + (s[p + 1] - 128)>> \o Utf8DecodeFrom(s, p + 2)
         ELSE IF b >= 224 /\ b <= 239 THEN
             IF p + 1 > n THEN cut
             ELSE IF ~SecondOk(b, s[p + 1]) THEN bad(1)
             ELSE IF p + 2 > n THEN cut
             ELSE IF ~IsCont(s[p + 2]) THEN bad(2)
             ELSE <<(b - 224) * 4096 + (s[p + 1] - 128) * 64 + (s[p + 2] - 128)>>
                      \o Utf8DecodeFrom(s, p + 3)
         ELSE IF b >= 240 /\ b <= 244 THEN
             IF p + 1 > n THEN cut
             ELSE IF ~SecondOk(b, s[p + 1]) THEN bad(1)
             ELSE IF p + 2 > n THEN cut
             ELSE IF ~IsCont(s[p + 2]) THEN bad(2)
             ELSE IF p + 3 > n THEN cut
             ELSE IF ~IsCont(s[p + 3]) THEN bad(3)
             ELSE <<(b - 240) * 262144 + (s[p + 1] - 128) * 4096
                      + (s[p + 2] - 128) * 64 + (s[p + 3] - 128)>>
                      \o Utf8DecodeFrom(s, p + 4)
         ELSE bad(1)

Utf8Decode(s) == Utf8DecodeFrom(s, 1)

----------------------------------------------------------------------------
(* dict helpers *)

HasKey(d, k) == \E j \in 1..Len(d) : d[j].key = k

\* d[k], for a key that is present
Lookup(d, k) == d[CHOOSE j \in 1..Len(d) : d[j].key = k].val

\* d[k] = v: a present key keeps its place, a new key goes last
DictSet(d, k, v) ==
    IF HasKey(d, k)
    THEN [j \in 1..Len(d) |-> IF d[j].key = k THEN [key |-> k, val |-> v] ELSE d[j]]
    ELSE Append(d, [key |-> k, val |-> v])

----------------------------------------------------------------------------
(* get_stats *)

\* counts after the loop body has run for the first n values of i
RECURSIVE StatsScan(_, _)
StatsScan(tokens, n) ==
    IF n <= 0 THEN <<>>
    ELSE LET counts == StatsScan(tokens, n - 1)
             pair == <<tokens[n], tokens[n + 1]>>
         IN DictSet(counts, pair,
                    (IF HasKey(counts, pair) THEN Lookup(counts, pair) ELSE 0) + 1)

get_stats(tokens) == StatsScan(tokens, Len(tokens) - 1)

----------------------------------------------------------------------------
(* max(stats, key=stats.get): the first key, in iteration order, whose value
   no later key exceeds; a later key replaces the best only when greater *)

RECURSIVE MaxScan(_, _)
MaxScan(stats, n) ==
    IF n = 1 THEN 1
    ELSE LET best == MaxScan(stats, n - 1)
         IN IF stats[n].val > stats[best].val THEN n ELSE best

\* variant: a later key replaces the best when it is not smaller
RECURSIVE MaxScanLast(_, _)
MaxScanLast(stats, n) ==
    IF n = 1 THEN 1
    ELSE LET best == MaxScanLast(stats, n - 1)
         IN IF stats[n].val >= stats[best].val THEN n ELSE best

max_key_last(stats) == stats[MaxScanLast(stats, Len(stats))].key

max_key(stats) == stats[MaxScan(stats, Len(stats))].key

----------------------------------------------------------------------------
(* merge *)

RECURSIVE MergeFrom(_, _, _, _)
MergeFrom(l, pair, idx, k) ==
    IF k > Len(l) THEN <<>>
    ELSE IF k < Len(l) /\ l[k] = pair[1] /\ l[k + 1] = pair[2]
         THEN <<idx>> \o MergeFrom(l, pair, idx, k + 2)
         ELSE <<l[k]>> \o MergeFrom(l, pair, idx, k + 1)

\* variant: the bound of the test is one short, the last pair is never merged
RECURSIVE MergeSkipLastFrom(_, _, _, _)
MergeSkipLastFrom(l, pair, idx, k) ==
    IF k > Len(l) THEN <<>>
    ELSE IF k < Len(l) - 1 /\ l[k] = pair[1] /\ l[k + 1] = pair[2]
         THEN <<idx>> \o MergeSkipLastFrom(l, pair, idx, k + 2)
         ELSE <<l[k]>> \o MergeSkipLastFrom(l, pair, idx, k + 1)

merge_skip_last(l, pair, idx) == MergeSkipLastFrom(l, pair, idx, 1)

\* variant: the cursor advances by one after a replacement
RECURSIVE MergeOverlapFrom(_, _, _, _)
MergeOverlapFrom(l, pair, idx, k) ==
    IF k > Len(l) THEN <<>>
    ELSE IF k < Len(l) /\ l[k] = pair[1] /\ l[k + 1] = pair[2]
         THEN <<idx>> \o MergeOverlapFrom(l, pair, idx, k + 1)
         ELSE <<l[k]>> \o MergeOverlapFrom(l, pair, idx, k + 1)

merge_overlap(l, pair, idx) == MergeOverlapFrom(l, pair, idx, 1)

\* variant: the cursor advances by three after a replacement
RECURSIVE MergeJumpFrom(_, _, _, _)
MergeJumpFrom(l, pair, idx, k) ==
    IF k > Len(l) THEN <<>>
    ELSE IF k < Len(l) /\ l[k] = pair[1] /\ l[k + 1] = pair[2]
         THEN <<idx>> \o MergeJumpFrom(l, pair, idx, k + 3)
         ELSE <<l[k]>> \o MergeJumpFrom(l, pair, idx, k + 1)

merge_jump(l, pair, idx) == MergeJumpFrom(l, pair, idx, 1)

\* variant: only the first occurrence is replaced
RECURSIVE MergeFirstFrom(_, _, _, _)
MergeFirstFrom(l, pair, idx, k) ==
    IF k > Len(l) THEN <<>>
    ELSE IF k < Len(l) /\ l[k] = pair[1] /\ l[k + 1] = pair[2]
         THEN <<idx>> \o SubSeq(l, k + 2, Len(l))
         ELSE <<l[k]>> \o MergeFirstFrom(l, pair, idx, k + 1)

merge_first_only(l, pair, idx) == MergeFirstFrom(l, pair, idx, 1)

merge(l, pair, idx) == MergeFrom(l, pair, idx, 1)

----------------------------------------------------------------------------
(* encode *)

\* variant: one merge too many
NumMergesOffByOne(size) == size - (NumBytes - 1)

NumMerges(size) == size - NumBytes

new_idx(k) == NumBytes + k

InitialVocab == [b \in 0..(NumBytes - 1) |-> <<b>>]

VocabSet(v, idx, bytes) ==
    [k \in (DOMAIN v) \cup {idx} |-> IF k = idx THEN bytes ELSE v[k]]

\* variant: the two entries concatenated the other way round
VocabEntrySwapped(v, pair) == v[pair[2]] \o v[pair[1]]

VocabEntry(v, pair) == v[pair[1]] \o v[pair[2]]

Empty == <<>>

\* lines 37-46: the initial state of the call, and the early return
EncodeCall ==
    /\ pc = "start"
    /\ ids' = Utf8Encode(text)
    /\ merges' = Empty
    /\ vocab' = InitialVocab
    /\ i' = 0
    /\ pc' = IF NumMerges(vocab_size) <= 0 THEN "trained" ELSE "loop"
    /\ UNCHANGED <<text, vocab_size>>
    /\ UNCHANGED decodeVars
    /\ UNCHANGED mergeVars

\* one iteration of the for loop that commits a rule
TrainStep ==
    /\ pc = "loop"
    /\ i < NumMerges(vocab_size)
    /\ LET stats == get_stats(ids) IN
        /\ stats # Empty
        /\ LET pair == max_key(stats)
               idx == new_idx(i)
           IN /\ merges' = DictSet(merges, pair, idx)
              /\ vocab' = VocabSet(vocab, idx, VocabEntry(vocab, pair))
              /\ ids' = merge(ids, pair, idx)
    /\ i' = i + 1
    /\ pc' = "loop"
    /\ UNCHANGED <<text, vocab_size>>
    /\ UNCHANGED decodeVars
    /\ UNCHANGED mergeVars

\* the iteration that finds no pair: break, then return
TrainBreak ==
    /\ pc = "loop"
    /\ i < NumMerges(vocab_size)
    /\ get_stats(ids) = Empty
    /\ pc' = "trained"
    /\ UNCHANGED trainVars
    /\ UNCHANGED decodeVars
    /\ UNCHANGED mergeVars

\* range(num_merges) is exhausted: return
TrainReturn ==
    /\ pc = "loop"
    /\ i >= NumMerges(vocab_size)
    /\ pc' = "trained"
    /\ UNCHANGED trainVars
    /\ UNCHANGED decodeVars
    /\ UNCHANGED mergeVars

----------------------------------------------------------------------------
(* decode *)

\* {new_idx: pair for pair, new_idx in merges.items()}: a later item wins
RevHas(m, idx) == \E j \in 1..Len(m) : m[j].val = idx

RevGet(m, idx) ==
    m[CHOOSE j \in 1..Len(m) :
        /\ m[j].val = idx
        /\ \A k \in (j + 1)..Len(m) : m[k].val # idx].key

\* variant: the two inserts in the other order
ExpandAtSwapped(l, k, pair) ==
    SubSeq(l, 1, k - 1) \o <<pair[2], pair[1]>> \o SubSeq(l, k + 1, Len(l))

\* variant: the pop is missing, the id stays behind the two symbols
ExpandAtNoPop(l, k, pair) ==
    SubSeq(l, 1, k - 1) \o <<pair[1], pair[2]>> \o SubSeq(l, k, Len(l))

\* ids.pop(i); ids.insert(i, pair[1]); ids.insert(i, pair[0])  (k = i + 1)
ExpandAt(l, k, pair) ==
    SubSeq(l, 1, k - 1) \o <<pair[1], pair[2]>> \o SubSeq(l, k + 1, Len(l))

StepBack(k) == IF k - 1 > 0 THEN k - 1 ELSE 0

\* the while loop of decode run to its end from cursor k on list l
\* (a function of the pair <<list, cursor>>)
DecodeLoop(m, l0, k0) ==
    LET loop[st \in Seq(Int) \X Nat] ==
            LET l == st[1]
                k == st[2]
            IN IF k >= Len(l) THEN l
               ELSE IF RevHas(m, l[k + 1])
                    THEN loop[<<ExpandAt(l, k + 1, RevGet(m, l[k + 1])), StepBack(k)>>]
                    ELSE loop[<<l, k + 1>>]
    IN loop[<<l0, k0>>]

\* the tokens decode is called with: the trained ids, or a short list over
\* a byte, the newest rule's id and an id no rule has
ForeignId == NumBytes + Len(merges)

TokenSymbols == {97, ForeignId} \cup {merges[j].val : j \in {Len(merges)} \ {0}}

DecodeInputs == {ids} \cup SeqsUpTo(TokenSymbols, MaxTokens)

DecodeCall ==
    /\ pc = "trained"
    /\ \E tokens \in DecodeInputs :
        /\ encoded_tokens' = tokens
        /\ d_ids' = tokens
    /\ d_i' = 0
    /\ pc' = "expand"
    /\ UNCHANGED <<d_raised, d_outcome, d_text>>
    /\ UNCHANGED trainVars
    /\ UNCHANGED mergeVars

\* the while loop, the branch that replaces the id at the cursor
DecodeExpand ==
    /\ pc = "expand"
    /\ d_i < Len(d_ids)
    /\ RevHas(merges, d_ids[d_i + 1])
    /\ d_ids' = ExpandAt(d_ids, d_i + 1, RevGet(merges, d_ids[d_i + 1]))
    /\ d_i' = StepBack(d_i)
    /\ UNCHANGED <<pc, encoded_tokens, d_raised, d_outcome, d_text>>
    /\ UNCHANGED trainVars
    /\ UNCHANGED mergeVars

\* the while loop, the branch that advances
DecodeAdvance ==
    /\ pc = "expand"
    /\ d_i < Len(d_ids)
    /\ ~RevHas(merges, d_ids[d_i + 1])
    /\ d_i' = d_i + 1
    /\ UNCHANGED <<pc, encoded_tokens, d_ids, d_raised, d_outcome, d_text>>
    /\ UNCHANGED trainVars
    /\ UNCHANGED mergeVars

\* variant: only negative values are refused
BytesOkNonNegative(l) == \A k \in 1..Len(l) : l[k] >= 0

\* bytes(ids) raises ValueError unless every value is in range(256)
BytesOk(l) == \A k \in 1..Len(l) : l[k] >= 0 /\ l[k] < NumBytes

\* lines 93-99: the try block, the handler and the return
DecodeReturn ==
    /\ pc = "expand"
    /\ d_i >= Len(d_ids)
    /\ IF BytesOk(d_ids)
       THEN /\ d_raised' = FALSE
            /\ d_text' = Utf8Decode(d_ids)
       ELSE /\ d_raised' = TRUE
            /\ d_text' = Empty
    /\ d_outcome' = "returned"
    /\ pc' = "decoded"
    /\ UNCHANGED <<encoded_tokens, d_ids, d_i>>
    /\ UNCHANGED trainVars
    /\ UNCHANGED mergeVars

----------------------------------------------------------------------------
(* the program: train on a text, then decode *)

Init ==
    /\ pc = "start"
    /\ text \in Texts
    /\ vocab_size \in VocabSizes
    /\ ids = Empty
    /\ merges = Empty
    /\ vocab = Empty
    /\ i = 0
    /\ encoded_tokens = Empty
    /\ d_ids = Empty
    /\ d_i = 0
    /\ d_raised = FALSE
    /\ d_outcome = "pending"
    /\ d_text = Empty
    /\ m_ids = Empty
    /\ m_pair = <<0, 0>>
    /\ m_idx = 0
    /\ newids = Empty

Next ==
    \/ EncodeCall
    \/ TrainStep
    \/ TrainBreak
    \/ TrainReturn
    \/ DecodeCall
    \/ DecodeExpand
    \/ DecodeAdvance
    \/ DecodeReturn

Spec == Init /\ [][Next]_vars

----------------------------------------------------------------------------
(* merge called on its own *)

MergeSymbols == {97, 98, NumBytes}

MergeIdxs == {97, NumBytes, NumBytes + 1}

MergeInit ==
    /\ pc = "merge_call"
    /\ m_ids \in SeqsUpTo(MergeSymbols, MaxMergeLen)
    /\ m_pair \in MergeSymbols \X MergeSymbols
    /\ m_idx \in MergeIdxs
    /\ newids = Empty
    /\ text = Empty
    /\ vocab_size = NumBytes
    /\ ids = Empty
    /\ merges = Empty
    /\ vocab = Empty
    /\ i = 0
    /\ encoded_tokens = Empty
    /\ d_ids = Empty
    /\ d_i = 0
    /\ d_raised = FALSE
    /\ d_outcome = "pending"
    /\ d_text = Empty

MergeCall ==
    /\ pc = "merge_call"
    /\ newids' = merge(m_ids, m_pair, m_idx)
    /\ pc' = "merge_ret"
    /\ UNCHANGED <<m_ids, m_pair, m_idx>>
    /\ UNCHANGED trainVars
    /\ UNCHANGED decodeVars

MergeNext == MergeCall

MergeSpec == MergeInit /\ [][MergeNext]_vars

----------------------------------------------------------------------------
(* Definitions the properties are stated with.  They are written from the
   meaning of the words (count, leftmost, run, replace), not from the
   operators above. *)

Min(a, b) == IF a < b THEN a ELSE b

Max(a, b) == IF a > b THEN a ELSE b

Started == pc \in {"loop", "trained", "expand", "decoded"}

Returned == pc \in {"trained", "expand", "decoded"}

RawBytes == Utf8Encode(text)

AdjacentPairs(l) == {<<l[k], l[k + 1]>> : k \in 1..(Len(l) - 1)}

Occurrences(l, p) == {k \in 1..(Len(l) - 1) : <<l[k], l[k + 1]>> = p}

PairCount(l, p) == Cardinality(Occurrences(l, p))

FirstOccurrence(l, p) ==
    CHOOSE k \in Occurrences(l, p) : \A j \in Occurrences(l, p) : k <= j

RuleKeys(m) == {m[j].key : j \in 1..Len(m)}

RuleIds(m) == {m[j].val : j \in 1..Len(m)}

IsByte(s) == s >= 0 /\ s < NumBytes

Copies(x, n) == [j \in 1..n |-> x]

\* every x of l replaced by the two symbols of p
RECURSIVE Unmerge(_, _, _)
Unmerge(l, p, x) ==
    IF l = <<>> THEN <<>>
    ELSE (IF Head(l) = x THEN <<p[1], p[2]>> ELSE <<Head(l)>>)
             \o Unmerge(Tail(l), p, x)

\* one greedy left-to-right non-overlapping replacement pass
RECURSIVE GreedyPass(_, _, _)
GreedyPass(l, p, x) ==
    IF l = <<>> THEN <<>>
    ELSE IF Len(l) >= 2 /\ l[1] = p[1] /\ l[2] = p[2]
         THEN <<x>> \o GreedyPass(SubSeq(l, 3, Len(l)), p, x)
         ELSE <<l[1]>> \o GreedyPass(Tail(l), p, x)

\* encoding with a fixed rule table: the present rule of lowest id, applied
\* as one pass, until no rule's pair is adjacent
RECURSIVE EncodeWithRules(_, _)
EncodeWithRules(l, m) ==
    LET present == {j \in 1..Len(m) : m[j].key \in AdjacentPairs(l)} IN
    IF present = {} THEN l
    ELSE LET j == CHOOSE a \in present : \A b \in present : m[a].val <= m[b].val
         IN EncodeWithRules(GreedyPass(l, m[j].key, m[j].val), m)

\* the number of leading X of l
RECURSIVE RunLength(_, _)
RunLength(l, X) ==
    IF l = <<>> \/ Head(l) # X THEN 0 ELSE 1 + RunLength(Tail(l), X)

\* every maximal run of k X becomes k div 2 copies of x and k mod 2 X
RECURSIVE RunRewrite(_, _, _)
RunRewrite(l, X, x) ==
    IF l = <<>> THEN <<>>
    ELSE IF Head(l) = X
         THEN LET k == RunLength(l, X)
              IN Copies(x, k \div 2) \o Copies(X, k % 2)
                     \o RunRewrite(SubSeq(l, k + 1, Len(l)), X, x)
         ELSE <<Head(l)>> \o RunRewrite(Tail(l), X, x)

----------------------------------------------------------------------------
\* C1: decoding the ids returned by training with the rules returned by
\* training gives back the text; the fully expanded ids are the UTF-8 bytes
\* of the text.
C1_RoundTrip ==
    (pc = "decoded" /\ encoded_tokens = ids) =>
        /\ d_outcome = "returned"
        /\ d_text = text
        /\ d_ids = RawBytes

\* a text with a multi-byte character, trained with nested merges, decoded
C1_Witness ==
    /\ pc = "decoded"
    /\ encoded_tokens = ids
    /\ Len(merges) >= 2
    /\ Len(ids) < Len(d_ids)
    /\ \E k \in 1..Len(text) : text[k] > 127
    /\ \E k \in 1..Len(text) : text[k] < 128

----------------------------------------------------------------------------
\* decode was given a symbol >= 256 that the reverse map has no entry for
HasForeignToken ==
    \E k \in 1..Len(encoded_tokens) :
        /\ encoded_tokens[k] >= NumBytes
        /\ ~RevHas(merges, encoded_tokens[k])

\* C2 (as claimed): given a symbol >= 256 without a reverse-map entry, decode
\* signals an error and returns no text value.
C2_SignalsError ==
    (pc = "decoded" /\ HasForeignToken) => d_outcome # "returned"

\* C2 (amended): given such a symbol, the byte conversion raises, the handler
\* catches it, and decode returns the empty string.
C2_ReturnsEmpty ==
    (pc = "decoded" /\ HasForeignToken) =>
        /\ d_raised
        /\ d_outcome = "returned"
        /\ d_text = <<>>

\* a rule id that expands, beside an id no rule has
C2_Witness ==
    /\ pc = "decoded"
    /\ HasForeignToken
    /\ Len(d_ids) > Len(encoded_tokens)

----------------------------------------------------------------------------
\* p has the greatest count among the adjacent pairs of l, and among the
\* pairs with that count its first occurrence is the leftmost
LeftmostMaximum(l, p) ==
    /\ p \in AdjacentPairs(l)
    /\ \A q \in AdjacentPairs(l) : PairCount(l, q) <= PairCount(l, p)
    /\ \A q \in AdjacentPairs(l) :
           PairCount(l, q) = PairCount(l, p)
               => FirstOccurrence(l, p) <= FirstOccurrence(l, q)

\* C3: in every iteration that commits a rule, the pair recorded for the
\* new id has the greatest count over the current sequence and is, among
\* the pairs of that count, the one met first.
C3_SelectsLeftmostMaximum ==
    [][(pc = "loop" /\ i' = i + 1) =>
          \E j \in 1..Len(merges') :
              /\ merges'[j].val = NumBytes + i
              /\ LeftmostMaximum(ids, merges'[j].key)]_vars

\* the newest rule was chosen among tied pairs, and is not the least of them
\* in the order of pairs
C3_Witness ==
    /\ pc = "loop"
    /\ Len(merges) >= 2
    /\ LET p == merges[Len(merges)].key
           before == Unmerge(ids, p, merges[Len(merges)].val)
       IN \E q \in AdjacentPairs(before) :
              /\ q # p
              /\ PairCount(before, q) = PairCount(before, p)
              /\ (q[1] < p[1] \/ (q[1] = p[1] /\ q[2] < p[2]))

----------------------------------------------------------------------------
\* C4: no iteration overwrites a rule (every committed iteration added a
\* key), the ids are 256, 257, ... in creation order, and the vocabulary has
\* 256 + len(rules) entries.
C4_ContiguousIds ==
    Started =>
        /\ Len(merges) = i
        /\ \A j, k \in 1..Len(merges) : merges[j].key = merges[k].key => j = k
        /\ \A j \in 1..Len(merges) : merges[j].val = NumBytes + j - 1
        /\ RuleIds(merges) = NumBytes..(NumBytes + Len(merges) - 1)
        /\ Cardinality(DOMAIN vocab) = NumBytes + Len(merges)

\* three rules committed and a fourth about to be
C4_Witness ==
    /\ pc = "loop"
    /\ Len(merges) >= 3
    /\ Len(ids) >= 2
    /\ i < NumMerges(vocab_size)

----------------------------------------------------------------------------
\* C5: the number of rules is at most min(max(0, V - 256), max(0, n - 1)),
\* every committing iteration shortens the sequence, an iteration that
\* finds at most one symbol returns with the rules as they are, training
\* returns short of V - 256 rules only on such a sequence, and "aaaa" with a
\* large target gives 2 rules and one symbol.
TrainingBounded ==
    Started =>
        /\ Len(merges) <= Min(Max(0, vocab_size - NumBytes),
                              Max(0, Len(RawBytes) - 1))
        /\ Len(ids) + Len(merges) <= Len(RawBytes)
        /\ i <= Max(0, vocab_size - NumBytes)
        /\ (Returned /\ vocab_size > NumBytes) =>
               (Len(merges) = vocab_size - NumBytes \/ Len(ids) <= 1)
        /\ (Returned /\ text = aaaa /\ vocab_size = DefaultVocabSize) =>
               (Len(merges) = 2 /\ Len(ids) = 1)

C5_BoundedTraining ==
    [][/\ TrainingBounded'
       /\ (pc = "loop" /\ i' = i + 1) => Len(ids') < Len(ids)
       /\ (pc = "loop" /\ Len(ids) <= 1) =>
              (pc' = "trained" /\ merges' = merges /\ ids' = ids)]_vars

C5_Witness ==
    /\ pc = "trained"
    /\ text = aaaa
    /\ vocab_size = DefaultVocabSize
    /\ Len(merges) = 2

----------------------------------------------------------------------------
\* C6: the returned ids are what encoding the raw bytes with the returned
\* rule table gives, and no adjacent pair of them is a key of the table.
C6_FinalIdsAreEncoding ==
    Returned =>
        /\ ids = EncodeWithRules(RawBytes, merges)
        /\ AdjacentPairs(ids) \cap RuleKeys(merges) = {}

C6_Witness ==
    /\ pc = "trained"
    /\ Len(merges) >= 2
    /\ Len(ids) >= 2
    /\ \E k \in 1..Len(ids) : ids[k] >= NumBytes
    /\ \E k \in 1..Len(ids) : ids[k] < NumBytes

----------------------------------------------------------------------------
\* C7: every vocabulary entry is the expansion of its id by decode's loop,
\* the entry of a rule's id is the concatenation of the entries of its
\* pair, and no step changes or removes an entry.
VocabularyExpands ==
    /\ \A s \in DOMAIN vocab : vocab[s] = DecodeLoop(merges, <<s>>, 0)
    /\ \A j \in 1..Len(merges) :
           vocab[merges[j].val]
               = vocab[merges[j].key[1]] \o vocab[merges[j].key[2]]

\* VocabularyExpands reads vocab and merges only, so it holds in every state
\* once it holds after every step that starts training or changes either
C7_VocabularyIsExpansion ==
    [][/\ (Started' /\ (~Started \/ vocab' # vocab \/ merges' # merges))
              => VocabularyExpands'
       /\ Started =>
              \A s \in DOMAIN vocab : s \in DOMAIN vocab' /\ vocab'[s] = vocab[s]]_vars

\* a rule over an earlier rule's id and a different symbol
C7_Witness ==
    /\ pc = "trained"
    /\ \E j \in 1..Len(merges) :
           /\ merges[j].key[1] # merges[j].key[2]
           /\ (merges[j].key[1] >= NumBytes \/ merges[j].key[2] >= NumBytes)
           /\ Len(vocab[merges[j].val]) >= 3

----------------------------------------------------------------------------
\* C8: with a target of at most 256 the loop is never entered and training
\* returns the UTF-8 bytes of the text, no rule and the identity vocabulary;
\* "hello" gives 104, 101, 108, 108, 111.
C8_DegenerateTarget ==
    vocab_size <= NumBytes =>
        /\ pc # "loop"
        /\ Returned =>
               /\ ids = RawBytes
               /\ merges = <<>>
               /\ DOMAIN vocab = 0..(NumBytes - 1)
               /\ \A b \in DOMAIN vocab : vocab[b] = <<b>>
               /\ text = hello => ids = <<104, 101, 108, 108, 111>>

C8_Witness ==
    /\ pc = "trained"
    /\ text = hello
    /\ vocab_size = 100

----------------------------------------------------------------------------
MergeReturned == pc = "merge_ret"

RunsHalved ==
    m_pair[1] = m_pair[2] => newids = RunRewrite(m_ids, m_pair[1], m_idx)

NoPairLeft == m_pair \notin AdjacentPairs(newids)

Restores == Unmerge(newids, m_pair, m_idx) = m_ids

IdxInPair == m_idx = m_pair[1] \/ m_idx = m_pair[2]

IdxInIds == \E k \in 1..Len(m_ids) : m_ids[k] = m_idx

\* C9 (as claimed): for a pair (X, X) runs are halved, and whenever idx is
\* not a member of the pair the output has no adjacent occurrence of the
\* pair and replacing idx by the pair gives back ids.
C9_AsClaimed ==
    MergeReturned =>
        /\ RunsHalved
        /\ ~IdxInPair => (NoPairLeft /\ Restores)

\* C9 (amended): merge leaves ids as it was and is the greedy pass; runs of
\* (X, X) are halved; when idx is not a member of the pair no adjacent
\* occurrence is left; when moreover idx does not occur in ids, replacing
\* idx by the pair gives back ids.
C9_GreedyPass ==
    [][MergeReturned' =>
          /\ m_ids' = m_ids
          /\ newids' = GreedyPass(m_ids, m_pair, m_idx)
          /\ RunsHalved'
          /\ ~IdxInPair' => NoPairLeft'
          /\ (~IdxInPair' /\ ~IdxInIds') => Restores']_vars

\* a run of three or more merged with a fresh id
C9_Witness ==
    /\ MergeReturned
    /\ m_pair[1] = m_pair[2]
    /\ RunLength(m_ids, m_pair[1]) >= 3
    /\ ~IdxInPair
    /\ ~IdxInIds
    /\ Len(newids) < Len(m_ids)

----------------------------------------------------------------------------
RulesDescend(m) ==
    \A j \in 1..Len(m) :
        /\ m[j].val >= NumBytes
        /\ m[j].key[1] < m[j].val
        /\ m[j].key[2] < m[j].val

TokensKnown ==
    \A k \in 1..Len(encoded_tokens) :
        IsByte(encoded_tokens[k]) \/ RevHas(merges, encoded_tokens[k])

\* iterations the loop spends on symbol s: one to pass a symbol it leaves;
\* for a rule id the replacement, the step over the left neighbour again,
\* and the two constituents
Weight(m, s0) ==
    LET w[s \in Int] ==
            IF RevHas(m, s)
            THEN 2 + w[RevGet(m, s)[1]] + w[RevGet(m, s)[2]]
            ELSE 1
    IN w[s0]

RECURSIVE WeightFrom(_, _, _)
WeightFrom(m, l, k) ==
    IF k > Len(l) THEN 0 ELSE Weight(m, l[k]) + WeightFrom(m, l, k + 1)

Remaining == WeightFrom(merges, d_ids, d_i + 1)

Nested(s) ==
    /\ RevHas(merges, s)
    /\ (RevHas(merges, RevGet(merges, s)[1]) \/ RevHas(merges, RevGet(merges, s)[2]))

\* C10: both symbols of every rule are below the rule's id and no id is
\* below 256; on tokens that are bytes or ids of the table every iteration
\* of decode's loop lowers a natural-number measure, and when the loop ends
\* every symbol of the working list is a byte.
C10_DecodeTerminates ==
    [][/\ RulesDescend(merges')
       /\ (pc = "expand" /\ TokensKnown) =>
              /\ pc' = "expand" => (Remaining' < Remaining /\ Remaining' >= 0)
              /\ pc' = "decoded" =>
                     \A k \in 1..Len(d_ids') : IsByte(d_ids'[k])]_vars

\* a foreign-free token list with a rule over a rule, decoded
C10_Witness ==
    /\ pc = "decoded"
    /\ TokensKnown
    /\ \E k \in 1..Len(encoded_tokens) : Nested(encoded_tokens[k])
    /\ Len(d_ids) >= 3

====
